---- MODULE Spec2Model ----
(***************************************************************************)
(* apiundo: committing undo/redo function pairs to Maya's undo queue.      *)
(*                                                                         *)
(* The module keeps two lists, shared.undoHistory and shared.redoHistory.  *)
(* commit(undo, redo) appends to both and runs the no-op plug-in command   *)
(* apiUndo, which the host records in its undo queue.  When the host undoes *)
(* or redoes that command it calls apiUndo.undoIt / apiUndo.redoIt, which  *)
(* pop the last entry of the matching list and call it.                    *)
(*                                                                         *)
(* The host (its undo queue, its redo queue and its undo-recording state)  *)
(* is the environment of the module; it is modelled as far as the module   *)
(* calls it or is called by it.  The plug-in is loaded in every state of   *)
(* this model (the module has been imported and install() has run);        *)
(* reinstall() unloads and loads it again within one operation.            *)
(***************************************************************************)
EXTENDS Integers, Sequences, FiniteSets, TLC

\* Number of operations (commits, native commands, host undos and redos,
\* undoInfo calls, reinstalls) of a run.
MaxOps == 6

VARIABLES
    undoHistory,   \* shared.undoHistory: list of undo functions
    redoHistory,   \* shared.redoHistory: list of redo functions
    undoQueue,     \* host: commands that can be undone, oldest first
    redoQueue,     \* host: commands that were undone, oldest undo first
    undoState,     \* host: cmds.undoInfo(state=..), recording on or off
    ncommit,       \* number of commit calls made so far
    trace,         \* one record per operation, in order of execution
    steps          \* the statements the last operation executed, in order

vars == <<undoHistory, redoHistory, undoQueue, redoQueue, undoState,
          ncommit, trace, steps>>

----------------------------------------------------------------------------
(* Values *)

\* The functions handed to commit.  Every commit call c passes its own undo
\* function UndoFn(c); it passes its own redo function RedoFn(c) or omits
\* it, in which case the one default object `lambda: None` is stored.
UndoFn(c) == [kind |-> "undo", c |-> c]
RedoFn(c) == [kind |-> "redo", c |-> c]
DefaultRedo == [kind |-> "noop", c |-> 0]
NoFn == [kind |-> "none", c |-> 0]

\* Entries of the host's queues.
ApiCmd(c) == [t |-> "apiUndo", c |-> c]
NativeCmd == [t |-> "native", c |-> 0]

Front(s) == SubSeq(s, 1, Len(s) - 1)
Last(s) == s[Len(s)]

\* One record of the trace: the operation, the apiUndo command it is about
\* (0 when none), the committed function it invoked (NoFn when none), the
\* undo and redo functions it was given (commit only) and whether the host
\* recorded it in its undo queue.
Event(op, c, f, u, r, q) ==
    [op |-> op, c |-> c, f |-> f, u |-> u, r |-> r, queued |-> q]

\* One statement of an operation: its name and the two lists as they are
\* once it has run.
Step(s, uh, rh) == [s |-> s, undoHistory |-> uh, redoHistory |-> rh]

----------------------------------------------------------------------------
(* apiUndo, the MPxCommand *)

\* apiUndo.doIt: pass.  Given the two lists, returns them as it leaves them
\* and the function it invoked.
doIt(uh, rh) == [undoHistory |-> uh, redoHistory |-> rh, f |-> NoFn]

\* Variant: the command reports that it cannot be undone.
isUndoableFalse == FALSE
\* apiUndo.isUndoable
isUndoable == TRUE

\* Variant: pop(0), the oldest entry instead of the newest.
undoItPopFirst(uh, rh) ==
    IF uh = <<>>
    THEN [raised |-> TRUE, undoHistory |-> uh, redoHistory |-> rh, f |-> NoFn]
    ELSE [raised |-> FALSE, undoHistory |-> Tail(uh), redoHistory |-> rh,
          f |-> Head(uh)]
\* Variant: undoHistory[-1], the entry is called but stays in the list.
undoItNoPop(uh, rh) ==
    IF uh = <<>>
    THEN [raised |-> TRUE, undoHistory |-> uh, redoHistory |-> rh, f |-> NoFn]
    ELSE [raised |-> FALSE, undoHistory |-> uh, redoHistory |-> rh,
          f |-> Last(uh)]
\* apiUndo.undoIt: func = shared.undoHistory.pop(); func().  pop() of an
\* empty list raises IndexError before anything is changed or called.
undoIt(uh, rh) ==
    IF uh = <<>>
    THEN [raised |-> TRUE, undoHistory |-> uh, redoHistory |-> rh, f |-> NoFn]
    ELSE [raised |-> FALSE, undoHistory |-> Front(uh), redoHistory |-> rh,
          f |-> Last(uh)]

\* Variant: redoIt pops shared.undoHistory.
redoItWrongList(uh, rh) ==
    IF uh = <<>>
    THEN [raised |-> TRUE, undoHistory |-> uh, redoHistory |-> rh, f |-> NoFn]
    ELSE [raised |-> FALSE, undoHistory |-> Front(uh), redoHistory |-> rh,
          f |-> Last(uh)]
\* apiUndo.redoIt: func = shared.redoHistory.pop(); func().
redoIt(uh, rh) ==
    IF rh = <<>>
    THEN [raised |-> TRUE, undoHistory |-> uh, redoHistory |-> rh, f |-> NoFn]
    ELSE [raised |-> FALSE, undoHistory |-> uh, redoHistory |-> Front(rh),
          f |-> Last(rh)]

----------------------------------------------------------------------------
(* State *)

NOps == Len(trace)

Init ==
    /\ undoHistory = <<>>
    /\ redoHistory = <<>>
    /\ undoQueue = <<>>
    /\ redoQueue = <<>>
    /\ undoState = TRUE
    /\ ncommit = 0
    /\ trace = <<>>
    /\ steps = <<>>

\* Variant: cmds.apiUndo() runs before the two functions are stored.
commitSignalFirst(u, r) ==
    LET c == ncommit + 1
        done == doIt(undoHistory, redoHistory)
        uh1 == Append(done.undoHistory, u)
        rh1 == Append(done.redoHistory, r)
        rec == undoState /\ isUndoable
    IN  /\ NOps < MaxOps
        /\ undoHistory' = uh1
        /\ redoHistory' = rh1
        /\ undoQueue' = IF rec THEN Append(undoQueue, ApiCmd(c)) ELSE undoQueue
        /\ redoQueue' = IF rec THEN <<>> ELSE redoQueue
        /\ ncommit' = c
        /\ trace' = Append(trace, Event("commit", c, done.f, u, r, rec))
        /\ steps' = <<Step("apiUndo", done.undoHistory, done.redoHistory),
                      Step("appendUndo", uh1, done.redoHistory),
                      Step("appendRedo", uh1, rh1)>>
        /\ UNCHANGED undoState

\* Variant: one slot each, a commit replaces what was pending.
commitSingleSlot(u, r) ==
    LET c == ncommit + 1
        uh1 == <<u>>
        rh1 == <<r>>
        done == doIt(uh1, rh1)
        rec == undoState /\ isUndoable
    IN  /\ NOps < MaxOps
        /\ undoHistory' = done.undoHistory
        /\ redoHistory' = done.redoHistory
        /\ undoQueue' = IF rec THEN Append(undoQueue, ApiCmd(c)) ELSE undoQueue
        /\ redoQueue' = IF rec THEN <<>> ELSE redoQueue
        /\ ncommit' = c
        /\ trace' = Append(trace, Event("commit", c, done.f, u, r, rec))
        /\ steps' = <<Step("appendUndo", uh1, redoHistory),
                      Step("appendRedo", uh1, rh1),
                      Step("apiUndo", done.undoHistory, done.redoHistory)>>
        /\ UNCHANGED undoState

\* commit(undo, redo=lambda: None), the statements in the order the code
\* runs them.  cmds.apiUndo() makes the host create the command and call
\* its doIt; the host then records the command in its undo queue, dropping
\* what could be redone, when recording is on and the command is undoable.
commit(u, r) ==
    LET c == ncommit + 1
        uh1 == Append(undoHistory, u)
        rh1 == Append(redoHistory, r)
        done == doIt(uh1, rh1)
        rec == undoState /\ isUndoable
    IN  /\ NOps < MaxOps
        /\ undoHistory' = done.undoHistory
        /\ redoHistory' = done.redoHistory
        /\ undoQueue' = IF rec THEN Append(undoQueue, ApiCmd(c)) ELSE undoQueue
        /\ redoQueue' = IF rec THEN <<>> ELSE redoQueue
        /\ ncommit' = c
        /\ trace' = Append(trace, Event("commit", c, done.f, u, r, rec))
        /\ steps' = <<Step("appendUndo", uh1, redoHistory),
                      Step("appendRedo", uh1, rh1),
                      Step("apiUndo", done.undoHistory, done.redoHistory)>>
        /\ UNCHANGED undoState

Commit ==
    \E withRedo \in BOOLEAN :
        commit(UndoFn(ncommit + 1),
               IF withRedo THEN RedoFn(ncommit + 1) ELSE DefaultRedo)

\* A native host command (cmds, PyMEL): the host records it when recording
\* is on; the module is not called.
NativeDo ==
    /\ NOps < MaxOps
    /\ undoQueue' = IF undoState THEN Append(undoQueue, NativeCmd) ELSE undoQueue
    /\ redoQueue' = IF undoState THEN <<>> ELSE redoQueue
    /\ trace' = Append(trace, Event("nativeDo", 0, NoFn, NoFn, NoFn, undoState))
    /\ steps' = <<>>
    /\ UNCHANGED <<undoHistory, redoHistory, undoState, ncommit>>

\* The host undoes a native command: the module is not called.
NativeUndo ==
    /\ NOps < MaxOps
    /\ undoState
    /\ undoQueue # <<>>
    /\ Last(undoQueue).t = "native"
    /\ undoQueue' = Front(undoQueue)
    /\ redoQueue' = Append(redoQueue, Last(undoQueue))
    /\ trace' = Append(trace, Event("nativeUndo", 0, NoFn, NoFn, NoFn, FALSE))
    /\ steps' = <<>>
    /\ UNCHANGED <<undoHistory, redoHistory, undoState, ncommit>>

\* The host redoes a native command: the module is not called.
NativeRedo ==
    /\ NOps < MaxOps
    /\ undoState
    /\ redoQueue # <<>>
    /\ Last(redoQueue).t = "native"
    /\ redoQueue' = Front(redoQueue)
    /\ undoQueue' = Append(undoQueue, Last(redoQueue))
    /\ trace' = Append(trace, Event("nativeRedo", 0, NoFn, NoFn, NoFn, FALSE))
    /\ steps' = <<>>
    /\ UNCHANGED <<undoHistory, redoHistory, undoState, ncommit>>

\* The host undoes the apiUndo command on top of its undo queue: it calls
\* undoIt and moves the command to the redo queue.  What the host does with
\* the command when undoIt raises is the host's choice: it is moved or it
\* stays.
HostUndo ==
    /\ NOps < MaxOps
    /\ undoState
    /\ undoQueue # <<>>
    /\ Last(undoQueue).t = "apiUndo"
    /\ LET cmd == Last(undoQueue)
           res == undoIt(undoHistory, redoHistory)
       IN  /\ undoHistory' = res.undoHistory
           /\ redoHistory' = res.redoHistory
           /\ \E moved \in (IF res.raised THEN BOOLEAN ELSE {TRUE}) :
                 /\ undoQueue' = IF moved THEN Front(undoQueue) ELSE undoQueue
                 /\ redoQueue' = IF moved THEN Append(redoQueue, cmd)
                                          ELSE redoQueue
           /\ trace' = Append(trace,
                   Event(IF res.raised THEN "undoRaised" ELSE "undo",
                         cmd.c, res.f, NoFn, NoFn, FALSE))
           /\ steps' = <<Step("undoIt", res.undoHistory, res.redoHistory)>>
    /\ UNCHANGED <<undoState, ncommit>>

\* The host redoes the apiUndo command on top of its redo queue: it calls
\* redoIt and moves the command back to the undo queue.
HostRedo ==
    /\ NOps < MaxOps
    /\ undoState
    /\ redoQueue # <<>>
    /\ Last(redoQueue).t = "apiUndo"
    /\ LET cmd == Last(redoQueue)
           res == redoIt(undoHistory, redoHistory)
       IN  /\ undoHistory' = res.undoHistory
           /\ redoHistory' = res.redoHistory
           /\ \E moved \in (IF res.raised THEN BOOLEAN ELSE {TRUE}) :
                 /\ redoQueue' = IF moved THEN Front(redoQueue) ELSE redoQueue
                 /\ undoQueue' = IF moved THEN Append(undoQueue, cmd)
                                          ELSE undoQueue
           /\ trace' = Append(trace,
                   Event(IF res.raised THEN "redoRaised" ELSE "redo",
                         cmd.c, res.f, NoFn, NoFn, FALSE))
           /\ steps' = <<Step("redoIt", res.undoHistory, res.redoHistory)>>
    /\ UNCHANGED <<undoState, ncommit>>

\* The host's undo machinery: recording state and the two queues.
Host == [undoState |-> undoState, undoQueue |-> undoQueue,
         redoQueue |-> redoQueue]

\* cmds.undoInfo(state=s) on host h: switching recording off flushes the
\* host's queues.
hostUndoInfo(h, s) ==
    [undoState |-> s,
     undoQueue |-> IF s THEN h.undoQueue ELSE <<>>,
     redoQueue |-> IF s THEN h.redoQueue ELSE <<>>]

\* cmds.undoInfo(state=s), called by the user: the module's lists are not
\* touched.
undoInfo(s) ==
    /\ NOps < MaxOps
    /\ undoState' = hostUndoInfo(Host, s).undoState
    /\ undoQueue' = hostUndoInfo(Host, s).undoQueue
    /\ redoQueue' = hostUndoInfo(Host, s).redoQueue
    /\ trace' = Append(trace,
            Event(IF s THEN "undoInfoOn" ELSE "undoInfoOff", 0, NoFn, NoFn,
                  NoFn, FALSE))
    /\ steps' = <<>>
    /\ UNCHANGED <<undoHistory, redoHistory, ncommit>>

UndoInfo ==
    \E s \in BOOLEAN : undoInfo(s)

\* One statement of reinstall: its name, the host and the two lists as they
\* are once it has run.
RStep(s, h, uh, rh) ==
    [s |-> s, undoState |-> h.undoState, undoQueue |-> h.undoQueue,
     redoQueue |-> h.redoQueue, undoHistory |-> uh, redoHistory |-> rh]

\* uninstall(): cmds.unloadPlugin.  The host refuses to unload the plug-in
\* while one of its commands is in the undo or the redo queue.
canUnload(h) ==
    /\ \A i \in DOMAIN h.undoQueue : h.undoQueue[i].t # "apiUndo"
    /\ \A i \in DOMAIN h.redoQueue : h.redoQueue[i].t # "apiUndo"

\* The module body, run by __import__ and again when the plug-in is loaded:
\* shared.undoHistory = list(); shared.redoHistory = list().
Imported == [undoHistory |-> <<>>, redoHistory |-> <<>>]

\* Variant: the queue is not flushed before the plug-in is unloaded.
reinstallNoFlush ==
    LET state == Host.undoState
        h == Host
        ok == canUnload(h)
        uh == IF ok THEN Imported.undoHistory ELSE undoHistory
        rh == IF ok THEN Imported.redoHistory ELSE redoHistory
    IN  /\ NOps < MaxOps
        /\ undoState' = h.undoState
        /\ undoQueue' = h.undoQueue
        /\ redoQueue' = h.redoQueue
        /\ undoHistory' = uh
        /\ redoHistory' = rh
        /\ trace' = Append(trace,
               Event(IF ok THEN "reinstall" ELSE "reinstallRaised",
                     0, NoFn, NoFn, NoFn, state))
        /\ steps' = <<RStep("query", Host, undoHistory, redoHistory),
                      RStep("uninstall", h, undoHistory, redoHistory)>>
                    \o (IF ok THEN <<RStep("import", h, uh, rh),
                                     RStep("install", h, uh, rh)>>
                              ELSE <<>>)
        /\ UNCHANGED ncommit

\* Variant: the queried state is not restored.
reinstallNoRestore ==
    LET state == Host.undoState
        off == hostUndoInfo(Host, FALSE)
        ok == canUnload(off)
        uh == IF ok THEN Imported.undoHistory ELSE undoHistory
        rh == IF ok THEN Imported.redoHistory ELSE redoHistory
    IN  /\ NOps < MaxOps
        /\ undoState' = off.undoState
        /\ undoQueue' = off.undoQueue
        /\ redoQueue' = off.redoQueue
        /\ undoHistory' = uh
        /\ redoHistory' = rh
        /\ trace' = Append(trace,
               Event(IF ok THEN "reinstall" ELSE "reinstallRaised",
                     0, NoFn, NoFn, NoFn, state))
        /\ steps' = <<RStep("query", Host, undoHistory, redoHistory),
                      RStep("undoInfoOff", off, undoHistory, redoHistory),
                      RStep("uninstall", off, undoHistory, redoHistory)>>
                    \o (IF ok THEN <<RStep("import", off, uh, rh),
                                     RStep("install", off, uh, rh)>>
                              ELSE <<>>)
        /\ UNCHANGED ncommit

\* reinstall(), the statements in the order the code runs them: query the
\* recording state, switch recording off (which flushes the queues), set
\* the queried state again, uninstall(), drop the module from sys.modules
\* and import it afresh, install().  When unloadPlugin raises, the rest is
\* not run.  The trace record keeps the queried state in its last field.
reinstall ==
    LET state == Host.undoState
        off == hostUndoInfo(Host, FALSE)
        back == hostUndoInfo(off, state)
        ok == canUnload(back)
        uh == IF ok THEN Imported.undoHistory ELSE undoHistory
        rh == IF ok THEN Imported.redoHistory ELSE redoHistory
    IN  /\ NOps < MaxOps
        /\ undoState' = back.undoState
        /\ undoQueue' = back.undoQueue
        /\ redoQueue' = back.redoQueue
        /\ undoHistory' = uh
        /\ redoHistory' = rh
        /\ trace' = Append(trace,
               Event(IF ok THEN "reinstall" ELSE "reinstallRaised",
                     0, NoFn, NoFn, NoFn, state))
        /\ steps' = <<RStep("query", Host, undoHistory, redoHistory),
                      RStep("undoInfoOff", off, undoHistory, redoHistory),
                      RStep("undoInfoRestore", back, undoHistory, redoHistory),
                      RStep("uninstall", back, undoHistory, redoHistory)>>
                    \o (IF ok THEN <<RStep("import", back, uh, rh),
                                     RStep("install", back, uh, rh)>>
                              ELSE <<>>)
        /\ UNCHANGED ncommit

Reinstall == reinstall

Next ==
    \/ Commit
    \/ NativeDo
    \/ NativeUndo
    \/ NativeRedo
    \/ HostUndo
    \/ HostRedo
    \/ UndoInfo
    \/ Reinstall

Spec == Init /\ [][Next]_vars

----------------------------------------------------------------------------
(* Reading the trace *)

\* The operation that was executed last.
LastOp == IF trace = <<>> THEN "none" ELSE Last(trace).op

\* The step from the unprimed to the primed state executed operation op.
Did(op) == Len(trace') = Len(trace) + 1 /\ Last(trace').op = op

\* The commit call that created apiUndo command c.
CommitOf(c) ==
    trace[CHOOSE m \in DOMAIN trace : trace[m].op = "commit" /\ trace[m].c = c]

Range(s) == {s[i] : i \in DOMAIN s}

IsUndoIt(e) == e.op \in {"undo", "undoRaised"}
IsRedoIt(e) == e.op \in {"redo", "redoRaised"}

----------------------------------------------------------------------------
(* C1 *)

\* C1: commit(undo, redo) appends undo to the end of undoHistory and redo to
\* the end of redoHistory, and invokes the host command apiUndo exactly once,
\* as its last statement, when both functions are already stored.
C1_CommitStoresThenSignals ==
    [][Did("commit") =>
        LET e == Last(trace')
            sig == {i \in DOMAIN steps' : steps'[i].s = "apiUndo"}
        IN  /\ undoHistory' = Append(undoHistory, e.u)
            /\ redoHistory' = Append(redoHistory, e.r)
            /\ Cardinality(sig) = 1
            /\ \A i \in sig :
                 /\ \E j \in 1..(i - 1) :
                        /\ steps'[j].s = "appendUndo"
                        /\ steps'[j].undoHistory = Append(undoHistory, e.u)
                 /\ \E j \in 1..(i - 1) :
                        /\ steps'[j].s = "appendRedo"
                        /\ steps'[j].redoHistory = Append(redoHistory, e.r)
                 /\ \A j \in (i + 1)..Len(steps') :
                        steps'[j].s \notin {"appendUndo", "appendRedo"}]_vars

\* A second commit has appended to lists that already held an entry.
C1_Witness ==
    /\ LastOp = "commit"
    /\ Len(undoHistory) >= 2
    /\ Len(redoHistory) >= 2
    /\ Last(undoHistory) = Last(trace).u
    /\ Last(steps).s = "apiUndo"

----------------------------------------------------------------------------
(* C2 *)

\* C2: the first undoIt the host runs after a commit(u, r), with no other
\* commit in between, invokes u and nothing else, whatever happened before
\* the commit and whatever native commands, redos or undoInfo calls happened
\* in between.
C2_NextUndoInvokesCommitted ==
    \A i \in DOMAIN trace : \A j \in DOMAIN trace :
        ( /\ i < j
          /\ trace[i].op = "commit"
          /\ IsUndoIt(trace[j])
          /\ \A k \in (i + 1)..(j - 1) :
                trace[k].op # "commit" /\ ~IsUndoIt(trace[k]) )
        => (trace[j].op = "undo" /\ trace[j].f = trace[i].u)

\* A commit made when undoHistory was not empty, then a native command done
\* and undone, then the host's undo invoking the committed function.
C2_Witness ==
    \E i \in DOMAIN trace : \E j \in DOMAIN trace :
        /\ 1 < i /\ i + 2 < j
        /\ trace[1].op = "commit"
        /\ trace[i].op = "commit"
        /\ trace[i + 1].op = "nativeDo"
        /\ trace[i + 2].op = "nativeUndo"
        /\ trace[j].op = "undo"
        /\ trace[j].f = trace[i].u
        /\ \A k \in (i + 1)..(j - 1) :
              trace[k].op # "commit" /\ ~IsUndoIt(trace[k])

----------------------------------------------------------------------------
(* C3 *)

\* C3: multi-level undo is last-in-first-out.  After n commits made from
\* the empty lists with nothing in between, the host's next undos invoke
\* un, ..., u1 in that order, one function each, and the n-th of them leaves
\* undoHistory empty.
C3_UndoIsLifo ==
    \A n \in 1..Len(trace) :
        ( /\ \A i \in 1..n : trace[i].op = "commit"
          /\ \A i \in (n + 1)..Len(trace) : IsUndoIt(trace[i])
          /\ Len(trace) <= 2 * n )
        => /\ \A i \in (n + 1)..Len(trace) :
                /\ trace[i].op = "undo"
                /\ trace[i].f = trace[2 * n + 1 - i].u
                /\ trace[i].c = trace[2 * n + 1 - i].c
           /\ Len(undoHistory) = 2 * n - Len(trace)

\* Three commits and then three undos, the last of which invoked u1.
C3_Witness ==
    /\ Len(trace) = 6
    /\ \A i \in 1..3 : trace[i].op = "commit"
    /\ \A i \in 4..6 : trace[i].op = "undo"
    /\ trace[6].f = trace[1].u
    /\ undoHistory = <<>>

----------------------------------------------------------------------------
(* C4 *)

\* C4: when the host redoes an apiUndo command, redoIt invokes the redo
\* function of the commit call that created that command.
C4_RedoInvokesPartner ==
    \A j \in DOMAIN trace :
        trace[j].op = "redo" => trace[j].f = CommitOf(trace[j].c).r

----------------------------------------------------------------------------
(* C5 *)

\* C5: once redone, it can no longer be undone.  When the undo function of
\* a commit has been invoked and the host has afterwards redone that
\* commit's command or invoked that commit's redo function, no later
\* operation invokes that undo function again.
C5_RedoneIsNotUndoneAgain ==
    \A i \in DOMAIN trace : \A j \in DOMAIN trace : \A k \in DOMAIN trace :
        ( /\ i < j /\ j < k
          /\ trace[i].op = "undo"
          /\ IsRedoIt(trace[j])
          /\ \E m \in 1..(i - 1) :
                /\ trace[m].op = "commit"
                /\ trace[m].u = trace[i].f
                /\ \/ trace[j].c = trace[m].c
                   \/ (trace[j].op = "redo" /\ trace[j].f = trace[m].r
                        /\ trace[m].r # DefaultRedo) )
        => trace[k].f # trace[i].f

\* A command was undone by its own undo function and redone by its own redo
\* function, and the host has undone it once more: with an older undo
\* function, or with none left.
C5_Witness ==
    \E i \in DOMAIN trace : \E m \in 1..(i - 1) :
        /\ i + 2 <= Len(trace)
        /\ trace[m].op = "commit"
        /\ trace[i].op = "undo"
        /\ trace[i].c = trace[m].c
        /\ trace[i].f = trace[m].u
        /\ trace[i + 1].op = "redo"
        /\ trace[i + 1].c = trace[m].c
        /\ trace[i + 1].f = trace[m].r
        /\ IsUndoIt(trace[i + 2])
        /\ trace[i + 2].c = trace[m].c

----------------------------------------------------------------------------
(* C6 *)

\* The operations of tr from the first undoIt or redoIt on.
FirstApiUndoRedo(tr) ==
    IF \E i \in DOMAIN tr : IsUndoIt(tr[i]) \/ IsRedoIt(tr[i])
    THEN CHOOSE i \in DOMAIN tr :
            /\ IsUndoIt(tr[i]) \/ IsRedoIt(tr[i])
            /\ \A k \in 1..(i - 1) : ~(IsUndoIt(tr[k]) \/ IsRedoIt(tr[k]))
    ELSE Len(tr) + 1

\* tr is a run that builds the host's queue out of commits and native
\* commands (natives may be undone and redone on the way) and then only
\* undoes, apiUndo commands and native commands alike.
BuildsThenUnwinds(tr) ==
    \A i \in FirstApiUndoRedo(tr)..Len(tr) :
        IsUndoIt(tr[i]) \/ tr[i].op = "nativeUndo"

\* In such a run every undo of an apiUndo command invokes the undo function
\* of the commit that created the command, later commits first.
UnwindsInReverse(tr) ==
    BuildsThenUnwinds(tr) =>
        \A i \in FirstApiUndoRedo(tr)..Len(tr) :
            IsUndoIt(tr[i]) =>
                /\ tr[i].op = "undo"
                /\ \E m \in 1..(i - 1) :
                      /\ tr[m].op = "commit"
                      /\ tr[m].c = tr[i].c
                      /\ tr[m].u = tr[i].f
                /\ \A k \in (i + 1)..Len(tr) :
                      IsUndoIt(tr[k]) => tr[k].c < tr[i].c

----------------------------------------------------------------------------
(* C7 *)

\* C7: while the host records undo, every commit call adds exactly one
\* apiUndo entry to the end of the host's undo queue; doIt changes neither
\* list and invokes no committed function; isUndoable is True.
C7_CommitQueuesOneCommand ==
    [][ /\ isUndoable = TRUE
        /\ doIt(undoHistory, redoHistory) =
              [undoHistory |-> undoHistory, redoHistory |-> redoHistory,
               f |-> NoFn]
        /\ (Did("commit") /\ undoState) =>
              /\ undoQueue' = Append(undoQueue, ApiCmd(Last(trace').c))
              /\ Last(trace').queued
              /\ Last(trace').f = NoFn
              /\ \A i \in 2..Len(steps') :
                    steps'[i].s = "apiUndo" =>
                        /\ steps'[i].undoHistory = steps'[i - 1].undoHistory
                        /\ steps'[i].redoHistory = steps'[i - 1].redoHistory
                        /\ undoHistory' = steps'[i].undoHistory
                        /\ redoHistory' = steps'[i].redoHistory ]_vars

\* A commit was recorded on top of an undo queue that already held an
\* apiUndo command and a native command.
C7_Witness ==
    /\ LastOp = "commit"
    /\ undoState
    /\ Len(undoQueue) = 3
    /\ undoQueue[1].t = "apiUndo"
    /\ undoQueue[2].t = "native"
    /\ undoQueue[3] = ApiCmd(Last(trace).c)

----------------------------------------------------------------------------
(* C8 *)

\* C8: each commit call makes undoHistory and redoHistory one entry longer,
\* also when redo is omitted; each undoIt that does not raise removes
\* exactly the last entry of undoHistory and each redoIt that does not raise
\* removes exactly the last entry of redoHistory.
C8_GrowAndShrinkByOne ==
    [][ /\ Did("commit") =>
              /\ Len(undoHistory') = Len(undoHistory) + 1
              /\ Len(redoHistory') = Len(redoHistory) + 1
              /\ SubSeq(undoHistory', 1, Len(undoHistory)) = undoHistory
              /\ SubSeq(redoHistory', 1, Len(redoHistory)) = redoHistory
        /\ Did("undo") =>
              /\ undoHistory # <<>>
              /\ undoHistory' = Front(undoHistory)
              /\ Last(trace').f = Last(undoHistory)
        /\ Did("redo") =>
              /\ redoHistory # <<>>
              /\ redoHistory' = Front(redoHistory)
              /\ Last(trace').f = Last(redoHistory) ]_vars

\* Two commits, one of them without redo, then an undo and a redo that each
\* left one entry behind.
C8_Witness ==
    /\ Len(trace) >= 4
    /\ \E i \in DOMAIN trace :
          trace[i].op = "commit" /\ trace[i].r = DefaultRedo
    /\ \E i \in DOMAIN trace : trace[i].op = "undo"
    /\ LastOp = "redo"
    /\ Last(trace).f = DefaultRedo
    /\ Len(undoHistory) = 1
    /\ Len(redoHistory) = 1

----------------------------------------------------------------------------
(* C9 *)

Count(op) == Cardinality({i \in DOMAIN trace : trace[i].op = op})

\* The place in the trace of the last reinstall, 0 when there was none.
LastReinstall ==
    IF \E i \in DOMAIN trace : trace[i].op = "reinstall"
    THEN CHOOSE i \in DOMAIN trace :
            /\ trace[i].op = "reinstall"
            /\ \A k \in (i + 1)..Len(trace) : trace[k].op # "reinstall"
    ELSE 0

CountSince(op, k) ==
    Cardinality({i \in (k + 1)..Len(trace) : trace[i].op = op})

----------------------------------------------------------------------------
(* C10 *)

\* C10: undoIt leaves redoHistory unchanged and redoIt leaves undoHistory
\* unchanged; redoIt puts no undo function back, so that the undo function
\* of a redone command is not in undoHistory.
C10_UndoRedoFrames ==
    [][ /\ (Did("undo") \/ Did("undoRaised")) => redoHistory' = redoHistory
        /\ (Did("redo") \/ Did("redoRaised")) => undoHistory' = undoHistory
        /\ Did("redo") =>
              CommitOf(Last(trace').c).u \notin Range(undoHistory') ]_vars

\* A command was redone while undoHistory still held an older undo function.
C10_Witness ==
    /\ Len(trace) >= 2
    /\ LastOp = "redo"
    /\ IsUndoIt(trace[Len(trace) - 1])
    /\ undoHistory # <<>>
    /\ redoHistory # <<>>

----------------------------------------------------------------------------
(* C11 *)

\* No undoIt or redoIt that follows a reinstall is for a command, or
\* invokes a function, of a commit made before that reinstall.  (The default
\* redo is the module's own lambda, not a function of the caller.)
NothingFromBeforeReinstall(tr) ==
    \A i \in DOMAIN tr : \A k \in DOMAIN tr : \A j \in DOMAIN tr :
        ( /\ i < k /\ k < j
          /\ tr[i].op = "commit"
          /\ tr[k].op = "reinstall"
          /\ IsUndoIt(tr[j]) \/ IsRedoIt(tr[j]) )
        => /\ tr[j].c # tr[i].c
           /\ tr[j].f # tr[i].u
           /\ tr[i].r # DefaultRedo => tr[j].f # tr[i].r

\* C11: reinstall flushes the host's undo queue before it unloads the
\* plug-in, so that unloading never fails, and the module it returns starts
\* with empty undoHistory and redoHistory: after reinstall the host's queues
\* hold no apiUndo command, and no later host undo or redo invokes a
\* function that was committed before the reinstall.
C11_ReinstallStartsAfresh ==
    [][ /\ ~Did("reinstallRaised")
        /\ Did("reinstall") =>
              /\ undoHistory' = <<>>
              /\ redoHistory' = <<>>
              /\ canUnload(Host')
              /\ \E i \in DOMAIN steps' : \E j \in DOMAIN steps' :
                    /\ i < j
                    /\ steps'[i].s = "undoInfoOff"
                    /\ steps'[i].undoQueue = <<>>
                    /\ steps'[i].redoQueue = <<>>
                    /\ steps'[j].s = "uninstall"
                    /\ steps'[j].undoQueue = <<>>
                    /\ steps'[j].redoQueue = <<>>
                    /\ \E m \in DOMAIN steps' :
                          /\ j < m
                          /\ steps'[m].s = "import"
                          /\ steps'[m].undoHistory = <<>>
                          /\ steps'[m].redoHistory = <<>>
        /\ NothingFromBeforeReinstall(trace') ]_vars

\* Two commits and an undo left apiUndo commands in both queues and entries
\* in both lists; after reinstall a new commit was undone with its own
\* function.
C11_Witness ==
    /\ Len(trace) = 6
    /\ trace[1].op = "commit" /\ trace[1].queued
    /\ trace[2].op = "commit" /\ trace[2].queued
    /\ trace[3].op = "undo"
    /\ trace[4].op = "reinstall"
    /\ trace[5].op = "commit"
    /\ trace[6].op = "undo" /\ trace[6].f = trace[5].u
    /\ undoHistory = <<>>
    /\ undoQueue = <<>>

----------------------------------------------------------------------------
(* C12 *)

\* C12: reinstall leaves the host's undo-recording state as it found it,
\* on or off: it queries the state, switches recording off and sets the
\* queried value again before it uninstalls.
C12_ReinstallKeepsUndoState ==
    [][ (Did("reinstall") \/ Did("reinstallRaised")) =>
          /\ undoState' = undoState
          /\ Last(trace').queued = undoState
          /\ Len(steps') >= 4
          /\ steps'[1].s = "query"
          /\ steps'[1].undoState = undoState
          /\ steps'[2].s = "undoInfoOff"
          /\ steps'[2].undoState = FALSE
          /\ steps'[3].s = "undoInfoRestore"
          /\ steps'[3].undoState = undoState
          /\ steps'[4].s = "uninstall"
          /\ steps'[4].undoState = undoState ]_vars

\* Reinstalled once with recording on and once with recording off.
C12_Witness ==
    /\ \E i \in DOMAIN trace : trace[i].op = "reinstall" /\ trace[i].queued
    /\ LastOp = "reinstall"
    /\ ~Last(trace).queued
    /\ ~undoState

----------------------------------------------------------------------------
(* C13 *)

\* C13: whenever the host undoes an apiUndo command, undoIt invokes the undo
\* function of the commit call that created that command.
C13_UndoInvokesOwnFunction ==
    \A j \in DOMAIN trace :
        trace[j].op = "undo" => trace[j].f = CommitOf(trace[j].c).u

----------------------------------------------------------------------------
(* C14 *)

\* C14: every committed function is invoked at most once: no two operations
\* of a run invoke the same undo function or the same redo function of a
\* commit call.  (The default redo is one object shared by the commits that
\* omit redo; it is invoked once per such commit at most.)
C14_InvokedAtMostOnce ==
    /\ \A i \in DOMAIN trace : \A j \in DOMAIN trace :
          ( /\ i < j
            /\ trace[i].f # NoFn
            /\ trace[i].f # DefaultRedo )
          => trace[j].f # trace[i].f
    /\ Cardinality({j \in DOMAIN trace : trace[j].f = DefaultRedo})
          <= Cardinality({i \in DOMAIN trace :
                 trace[i].op = "commit" /\ trace[i].r = DefaultRedo})

\* One command was undone, redone, undone again and redone again, and the
\* four operations invoked four different functions.
C14_Witness ==
    /\ Len(trace) = 6
    /\ trace[1].op = "commit" /\ trace[1].r # DefaultRedo
    /\ trace[2].op = "commit" /\ trace[2].r # DefaultRedo
    /\ trace[3].op = "undo" /\ trace[3].c = 2
    /\ trace[4].op = "redo" /\ trace[4].c = 2
    /\ trace[5].op = "undo" /\ trace[5].c = 2
    /\ trace[6].op = "redo" /\ trace[6].c = 2
    /\ Cardinality({trace[i].f : i \in 3..6}) = 4
====
